---- MODULE Spec2Model ----
(***************************************************************************)
(* Model of src/src/components/MessagePage.tsx: the MessagePage component. *)
(*                                                                         *)
(* The component is a React function component.  Its state is the set of   *)
(* useState cells; every handler is a closure over the values those cells  *)
(* had at the render in which the handler was created.  An event handler   *)
(* therefore READS the state of the last render and its setState calls     *)
(* are applied, in call order, when the handler returns.  An async handler *)
(* runs up to its first await inside the event; each continuation is a     *)
(* later step which still reads the closure's values.                      *)
(*                                                                         *)
(* The two language <select>s are not operated: sourceLanguage and         *)
(* targetLanguage keep their initial values "en" and "fr".                 *)
(*                                                                         *)
(* A JavaScript string is modelled as a sequence of tokens: the input text *)
(* is a sequence of one-character tokens, a fixed message of the program   *)
(* is a one-token sequence holding that message.                           *)
(***************************************************************************)
EXTENDS Integers, Sequences, FiniteSets, TLC

----------------------------------------------------------------------------
(* Bounds of the model *)

MaxCalls == 3        \* most capability calls outstanding at once
MaxMessages == 2     \* most messages in the conversation log
MaxTimers == 1       \* most bot replies scheduled and not yet fired

\* the values the textarea takes: empty, whitespace only, and a text
Texts == {<<>>, <<" ">>, <<"a">>}

\* the ranked candidate lists the language detector returns
Candidates == {<<>>, <<"en", "fr">>}

\* the milliseconds that pass between one event and the next
Elapsed == {1}

----------------------------------------------------------------------------
(* Strings *)

RECURSIVE TrimStart(_)
TrimStart(s) ==
  IF s # <<>> /\ Head(s) = " " THEN TrimStart(Tail(s)) ELSE s

RECURSIVE TrimEnd(_)
TrimEnd(s) ==
  IF s # <<>> /\ s[Len(s)] = " " THEN TrimEnd(SubSeq(s, 1, Len(s) - 1)) ELSE s

Trim(s) == TrimEnd(TrimStart(s))

EmptyStr == <<>>

Kinds == <<"translate", "detect", "summarize">>

KindSet == {Kinds[i] : i \in 1..Len(Kinds)}

TranslationFailed == <<"Translation failed. Please try again.">>

DetectionFailed == <<"Detection failed. Please try again.">>

SummarizationFailed == <<"Summarization failed. Please try again.">>

Unknown == <<"Unknown">>

\* FailStr with the message of handleTranslate's catch pasted into all three
FailStrPasted(k) == TranslationFailed

FailStr(k) ==
  CASE k = "translate" -> TranslationFailed
    [] k = "detect" -> DetectionFailed
    [] k = "summarize" -> SummarizationFailed

----------------------------------------------------------------------------
(* The three capabilities, as functions of what they are invoked with *)

Translate(src, tgt, text) == <<"translation", src, tgt>> \o text

Summarize(text) == <<"key-points">> \o text

\* the candidate of lowest confidence instead of the first
DetectedOfLast(result) ==
  IF Len(result) > 0 THEN <<result[Len(result)]>> ELSE Unknown

\* result[0].detectedLanguage, or "Unknown" for an empty list
DetectedOf(result) ==
  IF Len(result) > 0 THEN <<result[1]>> ELSE Unknown

----------------------------------------------------------------------------
(* State *)

VARIABLES
  messages,          \* useState<Message[]>
  isLoading,         \* useState<boolean>
  inputText,         \* useState<string>
  detectedLanguage,  \* useState<string>
  sourceLanguage,    \* useState<string>
  targetLanguage,    \* useState<string>
  translatedText,    \* useState<string>
  summary,           \* useState<string>
  ai,                \* the capabilities present in self.ai
  detector,          \* the candidate list the language detector has for a text
  calls,             \* async handler invocations suspended at an await
  timers,            \* setTimeout callbacks not yet fired, in firing order
  clock              \* the last reading of Date.now()

\* what the component runs in: fixed for a session
env == <<ai, detector>>

draft == <<translatedText, detectedLanguage, summary>>

state == <<messages, isLoading, inputText, detectedLanguage, sourceLanguage,
           targetLanguage, translatedText, summary>>

vars == <<messages, isLoading, inputText, detectedLanguage, sourceLanguage,
          targetLanguage, translatedText, summary, ai, detector, calls,
          timers, clock>>

Delay == 1500

\* the texts a capability can be invoked with
Spoken == {t \in Texts : Trim(t) # EmptyStr}

\* the values call c can pass to its setter when its awaits resolve
Results(c) ==
  CASE c.kind = "translate" -> {Translate(c.src, c.tgt, c.text)}
    [] c.kind = "detect" -> {DetectedOf(detector[c.text])}
    [] c.kind = "summarize" -> {Summarize(c.text)}

Init ==
  /\ messages = <<>>
  /\ isLoading = FALSE
  /\ inputText = EmptyStr
  /\ detectedLanguage = EmptyStr
  /\ sourceLanguage = "en"
  /\ targetLanguage = "fr"
  /\ translatedText = EmptyStr
  /\ summary = EmptyStr
  /\ ai \in SUBSET KindSet
  /\ detector \in [Spoken -> Candidates]
  /\ calls = <<>>
  /\ timers = <<>>
  /\ clock = 0

----------------------------------------------------------------------------
(* The async handlers, up to their first await.  st is the state the       *)
(* setState calls queued so far in the running event will produce; the     *)
(* handler's reads (inputText, sourceLanguage, targetLanguage) are those   *)
(* of its closure, the unprimed variables.                                 *)

\* the state before the event's first setState call
Pending ==
  [translatedText |-> translatedText, detectedLanguage |-> detectedLanguage,
   summary |-> summary, isLoading |-> isLoading, calls |-> calls]

WithField(st, k, v) ==
  CASE k = "translate" -> [st EXCEPT !.translatedText = v]
    [] k = "detect" -> [st EXCEPT !.detectedLanguage = v]
    [] k = "summarize" -> [st EXCEPT !.summary = v]

\* what a suspended handler holds: the arguments of create(..) and of the
\* capability's method, all read from the closure
Call(k, src, tgt) ==
  [kind |-> k, text |-> inputText, src |-> src, tgt |-> tgt]

\* Start without the finally: a missing capability leaves the indicator on
StartNoFinally(k, src, tgt, st) ==
  IF Trim(inputText) = EmptyStr THEN st
  ELSE IF k \notin ai
    THEN [WithField(st, k, FailStr(k)) EXCEPT !.isLoading = TRUE]
    ELSE [st EXCEPT !.isLoading = TRUE,
                    !.calls = Append(@, Call(k, src, tgt))]

\* guard; setIsLoading(true); try { availability check; await create(..)
\* catch { set the failure string } finally { setIsLoading(false) }
Start(k, src, tgt, st) ==
  IF Trim(inputText) = EmptyStr THEN st
  ELSE IF k \notin ai
    THEN [WithField(st, k, FailStr(k)) EXCEPT !.isLoading = FALSE]
    ELSE [st EXCEPT !.isLoading = TRUE,
                    !.calls = Append(@, Call(k, src, tgt))]

handleTranslate(st) == Start("translate", sourceLanguage, targetLanguage, st)

handleDetectLanguage(st) == Start("detect", "", "", st)

handleSummarize(st) == Start("summarize", "", "", st)

----------------------------------------------------------------------------
(* Event handlers *)

\* onChange of the textarea: e.target.value = v
handleInputChange(v) ==
  LET st == handleSummarize(handleDetectLanguage(handleTranslate(Pending)))
  IN /\ v # inputText
     /\ Len(st.calls) <= MaxCalls
     /\ inputText' = v
     /\ translatedText' = st.translatedText
     /\ detectedLanguage' = st.detectedLanguage
     /\ summary' = st.summary
     /\ isLoading' = st.isLoading
     /\ calls' = st.calls
     /\ UNCHANGED <<messages, sourceLanguage, targetLanguage, env, timers,
                    clock>>

HasUserMessage ==
  \E i \in 1..Len(messages) : messages[i].sender = "user"

\* Date.now(), d ms after the last reading
Now(d) == clock + d

UserMessage(now) ==
  [id |-> now, text |-> inputText, sender |-> "user",
   detectedLanguage |-> detectedLanguage]

\* the bot reply a timer appends: text and dl are the closure's values
BotReply(t, now) ==
  [id |-> now + 1, text |-> t.text, sender |-> "bot",
   detectedLanguage |-> t.detectedLanguage]

Timer(h, text, now) ==
  [handler |-> h, text |-> text, detectedLanguage |-> detectedLanguage,
   due |-> now + Delay]

\* the log explored: one message further in a session without capabilities,
\* whose draft never holds a result
LogBound == IF ai = {} THEN MaxMessages + 1 ELSE MaxMessages

Room(n) == Len(messages) + Len(timers) + n <= LogBound

\* handleSummary without its first line, the empty-input guard
handleSummaryUnguarded(d) ==
  /\ Room(2)
  /\ Len(timers) < MaxTimers
  /\ messages' = Append(messages, UserMessage(Now(d)))
  /\ inputText' = EmptyStr
  /\ timers' = Append(timers, Timer("summary", summary, Now(d)))
  /\ clock' = Now(d)
  /\ UNCHANGED <<isLoading, detectedLanguage, sourceLanguage, targetLanguage,
                 translatedText, summary, env, calls>>

\* the Summary button, d ms after the clock was last read
handleSummary(d) ==
  /\ IF Trim(inputText) = EmptyStr
       THEN UNCHANGED <<messages, inputText, timers, clock>>
       ELSE /\ Room(2)
            /\ Len(timers) < MaxTimers
            /\ messages' = Append(messages, UserMessage(Now(d)))
            /\ inputText' = EmptyStr
            /\ timers' = Append(timers, Timer("summary", summary, Now(d)))
            /\ clock' = Now(d)
  /\ UNCHANGED <<isLoading, detectedLanguage, sourceLanguage, targetLanguage,
                 translatedText, summary, env, calls>>

\* the Send button
handleSendMessage(d) ==
  /\ IF Trim(inputText) = EmptyStr
       THEN UNCHANGED <<messages, clock>>
       ELSE /\ Room(1)
            /\ messages' = Append(messages, UserMessage(Now(d)))
            /\ clock' = Now(d)
  /\ UNCHANGED <<isLoading, inputText, detectedLanguage, sourceLanguage,
                 targetLanguage, translatedText, summary, env, calls, timers>>

\* the Translate button, rendered inside each user message
handleTranMessage(d) ==
  /\ HasUserMessage
  /\ IF Trim(inputText) = EmptyStr
       THEN UNCHANGED <<timers, clock>>
       ELSE /\ Room(1)
            /\ Len(timers) < MaxTimers
            /\ timers' = Append(timers, Timer("tran", translatedText, Now(d)))
            /\ clock' = Now(d)
  /\ UNCHANGED <<messages, isLoading, inputText, detectedLanguage,
                 sourceLanguage, targetLanguage, translatedText, summary, env,
                 calls>>

----------------------------------------------------------------------------
(* Continuations *)

Remove(s, i) == SubSeq(s, 1, i - 1) \o SubSeq(s, i + 1, Len(s))

\* Settle with one error path for the three handlers: a failure resets the
\* whole draft
SettleShared(i, v) ==
  LET k == calls[i].kind
      failed == v = FailStr(k)
  IN /\ translatedText' =
          IF k = "translate" THEN v
          ELSE IF failed THEN EmptyStr ELSE translatedText
     /\ detectedLanguage' =
          IF k = "detect" THEN v
          ELSE IF failed THEN EmptyStr ELSE detectedLanguage
     /\ summary' =
          IF k = "summarize" THEN v
          ELSE IF failed THEN EmptyStr ELSE summary
     /\ isLoading' = FALSE
     /\ calls' = Remove(calls, i)
     /\ UNCHANGED <<messages, inputText, sourceLanguage, targetLanguage, env,
                    timers, clock>>

\* catch/finally or the code after the last await: the kind's setter, then
\* setIsLoading(false)
Settle(i, v) ==
  LET k == calls[i].kind
  IN /\ translatedText' = IF k = "translate" THEN v ELSE translatedText
     /\ detectedLanguage' = IF k = "detect" THEN v ELSE detectedLanguage
     /\ summary' = IF k = "summarize" THEN v ELSE summary
     /\ isLoading' = FALSE
     /\ calls' = Remove(calls, i)
     /\ UNCHANGED <<messages, inputText, sourceLanguage, targetLanguage, env,
                    timers, clock>>

\* the three handlers awaited one after the other: a call resolves only when
\* every call started before it has completed
callResolvedInOrder(i) ==
  /\ i = 1
  /\ i \in 1..Len(calls)
  /\ \E v \in Results(calls[i]) : Settle(i, v)

\* create(..) and then translate / detect / summarize resolve.  Nothing the
\* component can observe happens between the two awaits, so they are one
\* suspension.
callResolved(i) ==
  /\ i \in 1..Len(calls)
  /\ \E v \in Results(calls[i]) : Settle(i, v)

\* either await rejects
callRejected(i) ==
  /\ i \in 1..Len(calls)
  /\ Settle(i, FailStr(calls[i].kind))

\* timerFired with the spread reversed: [botReply, ...prevMessages]
timerFiredPrepending(d) ==
  LET t == Head(timers)
      now == IF Now(d) < t.due THEN t.due ELSE Now(d)
  IN /\ timers # <<>>
     /\ messages' = <<BotReply(t, now)>> \o messages
     /\ inputText' = IF t.handler = "tran" THEN EmptyStr ELSE inputText
     /\ isLoading' = FALSE
     /\ timers' = Tail(timers)
     /\ clock' = now
     /\ UNCHANGED <<detectedLanguage, sourceLanguage, targetLanguage,
                    translatedText, summary, env, calls>>

\* a callback that resets the shown translation along with the textarea
timerFiredClearing(d) ==
  LET t == Head(timers)
      now == IF Now(d) < t.due THEN t.due ELSE Now(d)
  IN /\ timers # <<>>
     /\ messages' = Append(messages, BotReply(t, now))
     /\ inputText' = IF t.handler = "tran" THEN EmptyStr ELSE inputText
     /\ translatedText' = IF t.handler = "tran" THEN EmptyStr
                                                ELSE translatedText
     /\ isLoading' = FALSE
     /\ timers' = Tail(timers)
     /\ clock' = now
     /\ UNCHANGED <<detectedLanguage, sourceLanguage, targetLanguage,
                    summary, env, calls>>

\* the setTimeout callback of handleSummary / handleTranMessage; timers of
\* equal delay fire in the order they were set, none before it is due
timerFired(d) ==
  LET t == Head(timers)
      now == IF Now(d) < t.due THEN t.due ELSE Now(d)
  IN /\ timers # <<>>
     /\ messages' = Append(messages, BotReply(t, now))
     /\ inputText' = IF t.handler = "tran" THEN EmptyStr ELSE inputText
     /\ isLoading' = FALSE
     /\ timers' = Tail(timers)
     /\ clock' = now
     /\ UNCHANGED <<detectedLanguage, sourceLanguage, targetLanguage,
                    translatedText, summary, env, calls>>

----------------------------------------------------------------------------

Next ==
  \/ \E v \in Texts : handleInputChange(v)
  \/ \E d \in Elapsed : handleSummary(d)
  \/ \E d \in Elapsed : handleSendMessage(d)
  \/ \E d \in Elapsed : handleTranMessage(d)
  \/ \E i \in 1..MaxCalls : callResolved(i)
  \/ \E i \in 1..MaxCalls : callRejected(i)
  \/ \E d \in Elapsed : timerFired(d)

Spec == Init /\ [][Next]_vars

----------------------------------------------------------------------------
(* Vocabulary of the properties *)

Field(k) ==
  CASE k = "translate" -> translatedText
    [] k = "detect" -> detectedLanguage
    [] k = "summarize" -> summary

\* the same field after the step
FieldAfter(k) ==
  CASE k = "translate" -> translatedText'
    [] k = "detect" -> detectedLanguage'
    [] k = "summarize" -> summary'

IsPrefix(s, t) == Len(s) <= Len(t) /\ SubSeq(t, 1, Len(s)) = s

\* the step is an edit of the textarea: the input changes and neither the log
\* nor the timers do (a commit or a bot reply changes one of them)
EditStep ==
  /\ inputText' # inputText
  /\ messages' = messages
  /\ timers' = timers

\* the calls the step has started
Issued == SubSeq(calls', Len(calls) + 1, Len(calls'))

IssuedOf(k) == {j \in 1..Len(Issued) : Issued[j].kind = k}

\* the step is the completion of the i-th outstanding call
Completes(i) ==
  /\ i \in 1..Len(calls)
  /\ calls' = Remove(calls, i)

\* the outcomes the capability of kind k has for a text
Outcomes(k, text) ==
  Results([kind |-> k, text |-> text, src |-> sourceLanguage,
           tgt |-> targetLanguage]) \cup {FailStr(k)}

----------------------------------------------------------------------------
(* C1: freshness.  When a call that was invoked with a text other than the  *)
(* current input text completes, translatedText, detectedLanguage and      *)
(* summary are unchanged by the completion (the stale result is dropped).   *)

C1_StaleResultDropped ==
  [][\A i \in 1..MaxCalls :
       (Completes(i) /\ calls[i].text # inputText) => draft' = draft]_vars

(* C2: last edit wins.  When the input text is non-empty and no call is     *)
(* outstanding, each draft field holds the outcome (success value or        *)
(* failure string) of its capability for the current input text.            *)

C2_LastEditWins ==
  (Trim(inputText) # EmptyStr /\ calls = <<>>) =>
    \A k \in KindSet : Field(k) \in Outcomes(k, inputText)

(* C3: an edit to a text that is non-empty after trimming issues exactly    *)
(* one request per kind, each invoked with the new text.                    *)

C3_OneRequestPerKindWithNewText ==
  [][(EditStep /\ Trim(inputText') # EmptyStr) =>
       /\ \A k \in ai : Cardinality(IssuedOf(k)) = 1
       /\ \A j \in 1..Len(Issued) : Issued[j].text = inputText']_vars

(* C4: an edit to an empty or whitespace-only text issues no capability     *)
(* request and leaves translatedText, detectedLanguage and summary as they  *)
(* were.                                                                    *)

C4_NoOpOnEmptyInput ==
  [][(EditStep /\ Trim(inputText') = EmptyStr) =>
       (calls' = calls /\ draft' = draft)]_vars

----------------------------------------------------------------------------
\* the failure strings as the specification gives them
FixedFailure(k) ==
  CASE k = "translate" -> <<"Translation failed. Please try again.">>
    [] k = "detect" -> <<"Detection failed. Please try again.">>
    [] k = "summarize" -> <<"Summarization failed. Please try again.">>

Commit ==
  \E d \in Elapsed :
    \/ handleSummary(d)
    \/ handleSendMessage(d)
    \/ handleTranMessage(d)

(* C5: independence.  The completion of a call, by success or by failure,   *)
(* changes no draft field but its own kind's and removes no other call; an  *)
(* edit changes a draft field only to that field's own failure string, when *)
(* its capability is absent, and still starts the call of every capability  *)
(* that is present.                                                         *)

C5_Independence ==
  [][/\ \A i \in 1..MaxCalls :
          Completes(i) =>
            \A k \in KindSet \ {calls[i].kind} : FieldAfter(k) = Field(k)
     /\ EditStep =>
          \A k \in KindSet :
            /\ FieldAfter(k) # Field(k) =>
                 (k \notin ai /\ FieldAfter(k) = FailStr(k))
            /\ (k \in ai /\ Trim(inputText) # EmptyStr) =>
                 IssuedOf(k) # {}]_vars

\* summarize was present and failed; translate and detect of the same edit
\* applied their results
C5_Witness ==
  /\ ai = KindSet
  /\ calls = <<>>
  /\ summary = SummarizationFailed
  /\ translatedText = Translate("en", "fr", <<"a">>)
  /\ detectedLanguage = Unknown

(* C6: fail closed.  A rejected call ends with its kind's field set to the  *)
(* fixed failure string and the call gone; every completion leaves in the   *)
(* field either the capability's result or that string; an edit made while  *)
(* a capability is absent sets that kind's field to the string and issues   *)
(* no call of that kind, and issues the calls of the kinds that are         *)
(* present whatever failed before.                                          *)

C6_FailClosed ==
  [][/\ \A i \in 1..Len(calls) :
          /\ callRejected(i) =>
               /\ FieldAfter(calls[i].kind) = FixedFailure(calls[i].kind)
               /\ calls' = Remove(calls, i)
          /\ Completes(i) =>
               FieldAfter(calls[i].kind) \in
                 Results(calls[i]) \cup {FixedFailure(calls[i].kind)}
     /\ (EditStep /\ Trim(inputText) # EmptyStr) =>
          /\ \A k \in KindSet \ ai :
               FieldAfter(k) = FixedFailure(k) /\ IssuedOf(k) = {}
          /\ \A k \in ai : Cardinality(IssuedOf(k)) = 1]_vars

\* summarize was rejected, and a later edit has a summarize call outstanding
C6_Witness ==
  /\ "summarize" \in ai
  /\ summary = SummarizationFailed
  /\ \E i \in 1..Len(calls) : calls[i].kind = "summarize"

(* C7: commit guard.  While the input text is empty after trimming, no      *)
(* commit action (Summary, Send, Translate button) changes anything: no     *)
(* message is appended, no bot reply is scheduled, no call is started and   *)
(* every state variable keeps its value.                                    *)

C7_CommitGuard ==
  Trim(inputText) = EmptyStr => ~ ENABLED (Commit /\ vars' # vars)

\* whitespace-only input with the three buttons rendered and clickable
C7_Witness ==
  /\ inputText = <<" ">>
  /\ HasUserMessage
  /\ ENABLED Commit

(* C8: the log is append-only and its messages are immutable.  In every     *)
(* step the old log is a prefix of the new one, and the completion of a     *)
(* call leaves the log as it is.                                            *)

C8_AppendOnlyLog ==
  [][/\ IsPrefix(messages, messages')
     /\ \A i \in 1..MaxCalls : Completes(i) => messages' = messages]_vars

\* a user message keeps the detected language it was committed with after a
\* later result has changed the draft, and a bot reply follows it
C8_Witness ==
  /\ Len(messages) = 2
  /\ messages[1].sender = "user"
  /\ messages[2].sender = "bot"
  /\ messages[1].detectedLanguage # detectedLanguage
  /\ detectedLanguage # DetectionFailed

(* C9: every commit with non-empty trimmed text appends exactly one User    *)
(* message, holding the input text and the draft detectedLanguage of that   *)
(* moment, and is followed by exactly one Bot message: the step that        *)
(* appends a User message schedules one bot reply, and a bot reply is       *)
(* scheduled only by a step that appends a User message.                    *)

UserAppended ==
  /\ Len(messages') > Len(messages)
  /\ messages'[Len(messages')].sender = "user"

ReplyScheduled == Len(timers') > Len(timers)

C9_UserThenBot ==
  [][/\ UserAppended =>
          /\ Len(messages') = Len(messages) + 1
          /\ messages'[Len(messages')].text = inputText
          /\ messages'[Len(messages')].detectedLanguage = detectedLanguage
          /\ Len(timers') = Len(timers) + 1
     /\ ReplyScheduled => UserAppended]_vars

(* C10: the text of every Bot message is the translate or the summarize     *)
(* outcome for the text of the User message it answers, the last User       *)
(* message before it in the log.                                            *)

Answered(j) ==
  CHOOSE i \in 1..j :
    /\ messages[i].sender = "user"
    /\ \A h \in (i + 1)..j : messages[h].sender = "bot"

C10_BotTextOfCommittedSnapshot ==
  \A j \in 1..Len(messages) :
    messages[j].sender = "bot" =>
      /\ \E i \in 1..j : messages[i].sender = "user"
      /\ messages[j].text \in
           Outcomes("translate", messages[Answered(j)].text) \cup
           Outcomes("summarize", messages[Answered(j)].text)

(* C11: deferred bot reply.  A Bot message is never appended while the      *)
(* translate (for the Translate button) or summarize (for Summary) call     *)
(* made with the text of the User message it answers is still outstanding.  *)

BotAppended ==
  /\ Len(messages') > Len(messages)
  /\ messages'[Len(messages')].sender = "bot"

\* the kind of call whose result the reply of a commit handler shows
ReplyKind(h) == IF h = "summary" THEN "summarize" ELSE "translate"

C11_ReplyAfterResult ==
  [][BotAppended =>
       ~ \E i \in 1..Len(calls) :
           /\ calls[i].kind = ReplyKind(Head(timers).handler)
           /\ calls[i].text = messages[Answered(Len(messages))].text]_vars

(* C12: a step that appends a User message (Send or Summary) leaves the     *)
(* input text empty, and the appended message carries the text the input    *)
(* had before the step.                                                     *)

C12_CommitClearsInput ==
  [][UserAppended =>
       /\ inputText' = EmptyStr
       /\ messages'[Len(messages')].text = inputText]_vars

(* C13: no step of a commit action (Send, Summary, the Translate button,    *)
(* and the later firing of a deferred bot reply) changes translatedText,    *)
(* detectedLanguage or summary.                                             *)

C13_CommitKeepsDraft ==
  ~ ENABLED (/\ Commit \/ \E d \in Elapsed : timerFired(d)
             /\ draft' # draft)

\* a deferred reply has fired and the draft still shows the results
C13_Witness ==
  /\ Len(messages) = 2
  /\ messages[2].sender = "bot"
  /\ timers = <<>>
  /\ translatedText = Translate(sourceLanguage, targetLanguage, <<"a">>)
  /\ summary = Summarize(<<"a">>)

(* C14: isLoading is on exactly when at least one capability call is        *)
(* outstanding.                                                             *)

C14_LoadingIffOutstanding == isLoading <=> calls # <<>>

(* C15: a capability call that never completes blocks nothing but itself.   *)
(* While a call stays outstanding, every other outstanding call can still   *)
(* resolve and apply its result, every edit is still accepted and starts    *)
(* the calls of the available kinds, and Send and Summary still append the  *)
(* User message (edits and commits within the explored bounds).             *)

C15_HungCallBlocksNothing ==
  /\ Len(calls) > 1 =>
       \A j \in 1..Len(calls) :
         ENABLED (/\ callResolved(j)
                  /\ FieldAfter(calls[j].kind) \in Results(calls[j])
                  /\ calls' = Remove(calls, j))
  /\ calls # <<>> =>
       /\ \A v \in Texts \ {inputText} :
            (Trim(inputText) = EmptyStr
               \/ Len(calls) + Cardinality(ai) <= MaxCalls) =>
              ENABLED (/\ handleInputChange(v)
                       /\ inputText' = v
                       /\ IsPrefix(calls, calls')
                       /\ Trim(inputText) # EmptyStr =>
                            \A k \in ai : IssuedOf(k) # {})
       /\ (Trim(inputText) # EmptyStr /\ Room(1)) =>
            ENABLED (/\ \E d \in Elapsed : handleSendMessage(d)
                     /\ UserAppended)
       /\ (Trim(inputText) # EmptyStr /\ Room(2)
             /\ Len(timers) < MaxTimers) =>
            ENABLED (/\ \E d \in Elapsed : handleSummary(d)
                     /\ UserAppended
                     /\ ReplyScheduled)

\* one call of an edit still outstanding after the two other calls of that
\* edit have applied their results, a later edit has been accepted and two
\* messages have been appended
C15_Witness ==
  /\ Len(calls) = 1
  /\ calls[1].kind = "translate"
  /\ detectedLanguage = DetectedOf(detector[<<"a">>])
  /\ summary = Summarize(<<"a">>)
  /\ inputText = <<"a">>
  /\ Len(messages) = 2

(* C16: a detection that resolves sets detectedLanguage to the code of the  *)
(* first candidate of the ranked list, or to "Unknown" when the list is     *)
(* empty, and never to the detection failure string.                        *)

C16_FirstCandidateOrUnknown ==
  \A i \in 1..Len(calls) :
    calls[i].kind = "detect" =>
      LET list == detector[calls[i].text]
          expected == IF list = <<>> THEN <<"Unknown">> ELSE <<list[1]>>
      IN /\ ENABLED callResolved(i)
         /\ ~ ENABLED (callResolved(i) /\ detectedLanguage' # expected)
         /\ expected # FixedFailure("detect")

\* a detection has resolved with a ranked list of two candidates
C16_Witness ==
  /\ detector[<<"a">>] = <<"en", "fr">>
  /\ detectedLanguage = <<"en">>
  /\ \A i \in 1..Len(calls) : calls[i].kind # "detect"

(* C17: every Bot message answers a User message of its own.  In every      *)
(* prefix of the log the Bot messages are no more than the User messages.   *)

CountOf(who, n) ==
  Cardinality({j \in 1..n : messages[j].sender = who})

C17_BotsNoMoreThanUsers ==
  \A n \in 1..Len(messages) : CountOf("bot", n) <= CountOf("user", n)

(* C18: isLoading true implies that at least one capability call is still   *)
(* outstanding; when every issued call has completed, isLoading is false.   *)

C18_LoadingImpliesOutstanding == isLoading => calls # <<>>

\* the indicator on with the three calls of an edit outstanding
C18_Witness ==
  /\ isLoading
  /\ Len(calls) = 3

(* C19: the ids of the messages in the log are pairwise distinct.           *)

C19_UniqueIds ==
  \A i, j \in 1..Len(messages) : i # j => messages[i].id # messages[j].id

====
